---- MODULE Spec2Model ----
(***************************************************************************)
(* SimpleVector<Type> of simple-vector/simple_vector.h, instantiated with  *)
(* Type = bool (moving a bool copies it, Type() is false).                 *)
(*                                                                         *)
(* A size_t value x is represented by the integer r closest to zero with   *)
(* x = r mod 2^64: 0, 1, 2, ... stand for themselves and -k stands for     *)
(* 2^64 - k.  ++ and -- are then +1 and -1 exactly (0 - 1 is -1, that is   *)
(* 2^64 - 1, and -1 + 1 is 0), and the unsigned order is ULess.            *)
(*                                                                         *)
(* std::unique_ptr<Type[]> is a handle into `heap`: 0 is the null pointer, *)
(* b > 0 is the array new Type[n] returned, whose slots are heap[b].slots  *)
(* (C++ index i is TLA+ index i + 1).  new Type[0] is a non-null array of  *)
(* no slots.                                                               *)
(*                                                                         *)
(* An access outside the slots of the array it goes through is undefined   *)
(* behaviour: the step sets `ub` and nothing is modelled after it.         *)
(***************************************************************************)
EXTENDS Integers, Sequences, FiniteSets, TLC

\* ---- bounds of the model ----
\* no call is followed that leaves more than HeapSlots slots allocated
HeapSlots == 4
\* PopBack is not taken below size_ = 2^64 - MaxUnder
MaxUnder == 1

Vecs == {"a", "b"}
\* two containers and the temporary of copy assignment
BufIds == 1..(Cardinality(Vecs) + 1)
Counts == 0..HeapSlots

VARIABLES vec, heap, ub, last, fresh
vars == <<vec, heap, ub, last, fresh>>

\* ---- size_t ----
ULess(x, y) == IF (x < 0) = (y < 0) THEN x < y ELSE y < 0
ULessEq(x, y) == x = y \/ ULess(x, y)

\* ---- Type = bool, false and true written 0 and 1 ----
\* Type()
DefaultValue == 0
Values == {DefaultValue, DefaultValue + 1}

\* ---- the heap: operator new[] / delete[] ----
NoArray == [used |-> FALSE, slots |-> <<>>]

RECURSIVE SlotsFrom(_, _)
SlotsFrom(h, b) ==
    IF b \notin BufIds THEN 0
    ELSE (IF h[b].used THEN Len(h[b].slots) ELSE 0) + SlotsFrom(h, b + 1)

UsedSlots(h) == SlotsFrom(h, 1)

FreeIds(h) == {b \in BufIds : ~h[b].used}

NewId(h) == CHOOSE b \in FreeIds(h) : \A c \in FreeIds(h) : b <= c

\* new Type[n](): n value-initialised slots
RECURSIVE ValueInitialised(_)
ValueInitialised(n) ==
    IF n = 0 THEN <<>> ELSE Append(ValueInitialised(n - 1), DefaultValue)

\* std::make_unique<Type[]>(n)
MakeUnique(h, n) ==
    [h EXCEPT ![NewId(h)] = [used |-> TRUE, slots |-> ValueInitialised(n)]]

\* ~unique_ptr / reset of a unique_ptr<Type[]>: delete[] of a non-null array
Release(h, p) == IF p = 0 THEN h ELSE [h EXCEPT ![p] = NoArray]

\* the slots behind a pointer
Slots(h, p) == IF p = 0 THEN <<>> ELSE h[p].slots

\* ---- SimpleVector: the members ----
NotConstructed == [alive |-> FALSE, size_ |-> 0, capacity_ |-> 0, array_ |-> 0]
\* size_ = 0, capacity_ = 0, array_ = nullptr
DefaultMembers == [alive |-> TRUE, size_ |-> 0, capacity_ |-> 0, array_ |-> 0]

GetSize(c) == c.size_
GetCapacity(c) == c.capacity_

\* A run is any sequence of calls.  The call that ends a run is kept in
\* `last`: the operation, the container it was called on, its other operand,
\* its index or count argument, its value argument, whether its allocation
\* succeeded, the index of the iterator it returned, and the members and the
\* heap it was called in.  last = NoCall while the run goes on.
Call(op, v, src, idx, val, ok, ret) ==
    [op |-> op, vec |-> v, src |-> src, idx |-> idx, val |-> val, ok |-> ok,
     ret |-> ret, vec0 |-> vec, heap0 |-> heap]

NoCall ==
    [op |-> "none", vec |-> "a", src |-> "a", idx |-> 0, val |-> 0, ok |-> TRUE,
     ret |-> 0, vec0 |-> [v \in Vecs |-> NotConstructed],
     heap0 |-> [b \in BufIds |-> NoArray]]

\* A run may follow a container from the call that left it empty, a Clear or
\* the constructor from a ReserveProxyObj, through PushBack calls on it, as
\* many as the capacity it was left with, and ends there.  fresh[v].on holds
\* while the run follows v; `by` is the call that left v empty, `capacity`
\* that capacity and `pushed` the values pushed since, in order.
NotFresh == [on |-> FALSE, by |-> "none", capacity |-> 0, pushed |-> <<>>]
NoneFresh == [v \in Vecs |-> NotFresh]

Emptying == {"Clear", "ReserveConstruct"}

\* what fresh may be after `call` has completed leaving members vs
Tracked(call, vs) ==
    IF call.op \in Emptying
    THEN {NoneFresh,
          [NoneFresh EXCEPT ![call.vec] =
              [on |-> TRUE, by |-> call.op, capacity |-> vs[call.vec].capacity_,
               pushed |-> <<>>]]}
    ELSE IF call.op = "PushBack" /\ fresh[call.vec].on
    THEN {[fresh EXCEPT ![call.vec].pushed = Append(@, call.val)]}
    ELSE {NoneFresh}

\* more calls of any kind follow: no undefined behaviour so far, the run has
\* not ended and it follows no container
Running == ~ub /\ last = NoCall /\ fresh = NoneFresh

\* one more PushBack on v follows in a run that follows v
Following(v) ==
    /\ ~ub /\ last = NoCall
    /\ fresh[v].on /\ Len(fresh[v].pushed) < fresh[v].capacity

Init ==
    /\ vec = [v \in Vecs |-> NotConstructed]
    /\ heap = [b \in BufIds |-> NoArray]
    /\ ub = FALSE
    /\ last = NoCall
    /\ fresh = NoneFresh

\* Addresses are only ever compared for equality, so states are kept up to a
\* renaming of the arrays: the array of a comes first, then that of b, then
\* the others in their order.
Order(vs, h) ==
    LET pa == vs["a"].array_
        pb == vs["b"].array_
        owned == (IF pa = 0 THEN <<>> ELSE <<pa>>)
                 \o (IF pb = 0 \/ pb = pa THEN <<>> ELSE <<pb>>)
        rest == SelectSeq([b \in BufIds |-> b],
                          LAMBDA b : b # pa /\ b # pb)
    IN owned \o rest

Renamed(order, p) == IF p = 0 THEN 0 ELSE CHOOSE i \in BufIds : order[i] = p

\* the members and the heap a step leaves, up to the renaming
Leaves(vs, h) ==
    LET order == Order(vs, h) IN
    /\ vec' = [v \in Vecs |-> [vs[v] EXCEPT !.array_ = Renamed(order, @)]]
    /\ heap' = [i \in BufIds |-> h[order[i]]]

\* a call that completes, leaving members vs and heap h; the run may end here
Completes(vs, h, call) ==
    /\ UsedSlots(h) <= HeapSlots
    /\ Leaves(vs, h)
    /\ last' \in {NoCall, call}
    /\ fresh' \in Tracked(call, vs)
    /\ UNCHANGED ub

\* a call that completes and leaves members c in v and the heap h
Returns(v, c, h, call) == Completes([vec EXCEPT ![v] = c], h, call)

\* a call of a const member or operator that completes: it leaves everything
\* as it was, so nothing is lost by ending the run with it
Reads(call) ==
    /\ last' = call
    /\ UNCHANGED <<vec, heap, ub, fresh>>

\* a call that runs into undefined behaviour
Undefined(call) ==
    /\ ub' = TRUE
    /\ last' = call
    /\ UNCHANGED <<vec, heap, fresh>>

\* a call out of which std::bad_alloc propagates, leaving members c in v:
\* the run ends with it
Throws(v, c, call) ==
    /\ Leaves([vec EXCEPT ![v] = c], heap)
    /\ last' = call
    /\ fresh' = NoneFresh
    /\ UNCHANGED ub

\* ---- the element loops ----
\* for (i = from; i != to; ++i) dst[i + shift] = std::move(src[i]);
RECURSIVE MoveInto(_, _, _, _, _)
MoveInto(dst, src, i, to, shift) ==
    IF i = to THEN dst
    ELSE MoveInto([dst EXCEPT ![i + shift + 1] = src[i + 1]], src, i + 1, to, shift)

\* MoveUp with the loop ended one element early (i != idx + 1)
RECURSIVE MoveUpEndsEarly(_, _, _)
MoveUpEndsEarly(arr, i, idx) ==
    IF i = idx \/ i = idx + 1 THEN arr
    ELSE MoveUpEndsEarly([arr EXCEPT ![i + 1] = arr[i]], i - 1, idx)

\* for (i = from; i != idx; --i) array_[i] = std::move(array_[i - 1]);
RECURSIVE MoveUp(_, _, _)
MoveUp(arr, i, idx) ==
    IF i = idx THEN arr
    ELSE MoveUp([arr EXCEPT ![i + 1] = arr[i]], i - 1, idx)

\* MoveDown with the loop ended one element early (i != size_ - 1)
RECURSIVE MoveDownEndsEarly(_, _, _)
MoveDownEndsEarly(arr, i, size) ==
    IF i = size \/ i + 1 = size THEN arr
    ELSE MoveDownEndsEarly([arr EXCEPT ![i] = arr[i + 1]], i + 1, size)

\* for (i = from; i != size_; ++i) array_[i - 1] = std::move(array_[i]);
RECURSIVE MoveDown(_, _, _)
MoveDown(arr, i, size) ==
    IF i = size THEN arr
    ELSE MoveDown([arr EXCEPT ![i] = arr[i + 1]], i + 1, size)

\* FillDefault leaving the slots as they are (size_ = new_size alone)
FillDefaultSkipped(arr, i, new_size) == arr

\* for (i = from; i < new_size; ++i) array_[i] = Type();
RECURSIVE FillDefault(_, _, _)
FillDefault(arr, i, new_size) ==
    IF ~ULess(i, new_size) THEN arr
    ELSE FillDefault([arr EXCEPT ![i + 1] = DefaultValue], i + 1, new_size)

\* for (i = 0; i < size_; ++i) array_[i] = value;
RECURSIVE FillValue(_, _, _, _)
FillValue(arr, i, size, value) ==
    IF ~ULess(i, size) THEN arr
    ELSE FillValue([arr EXCEPT ![i + 1] = value], i + 1, size, value)

\* std::copy(first, end, d_first): src[first, end) into dst, from dst[0] on
\* when called with first = 0
RECURSIVE StdCopy(_, _, _, _)
StdCopy(src, first, end, dst) ==
    IF first = end THEN dst
    ELSE StdCopy(src, first + 1, end, [dst EXCEPT ![first + 1] = src[first + 1]])

\* whether the range [0, size) lies inside an array of n slots
InRange(size, n) == ULessEq(size, n)

\* ---- constructors and destructor ----
\* SimpleVector() noexcept = default;
DefaultConstruct(v) ==
    /\ Running /\ ~vec[v].alive
    /\ Returns(v, DefaultMembers, heap, Call("DefaultConstruct", v, v, 0, 0, TRUE, 0))

\* size_(size), capacity_(size), array_(make_unique<Type[]>(capacity_))
SizedMembers(size, p) == [alive |-> TRUE, size_ |-> size, capacity_ |-> size, array_ |-> p]

\* explicit SimpleVector(size_t size)
SizedConstruct(v, size, ok) ==
    /\ Running /\ ~vec[v].alive
    /\ LET call == Call("SizedConstruct", v, v, size, 0, ok, 0) IN
       IF ~ok THEN Throws(v, vec[v], call)
       ELSE Returns(v, SizedMembers(size, NewId(heap)), MakeUnique(heap, size), call)

\* SimpleVector(size_t size, const Type& value)
FillConstruct(v, size, value, ok) ==
    /\ Running /\ ~vec[v].alive
    /\ LET call == Call("FillConstruct", v, v, size, value, ok, 0) IN
       IF ~ok THEN Throws(v, vec[v], call)
       ELSE LET p == NewId(heap)
                   h == MakeUnique(heap, size)
               IN Returns(v, SizedMembers(size, p),
                          [h EXCEPT ![p].slots = FillValue(@, 0, size, value)], call)

\* for (const auto& item : init) { array_[i] = item; ++i; }
RECURSIVE CopyItems(_, _, _)
CopyItems(arr, init, i) ==
    IF i = Len(init) THEN arr
    ELSE CopyItems([arr EXCEPT ![i + 1] = init[i + 1]], init, i + 1)

\* SimpleVector(std::initializer_list<Type> init)
ListConstruct(v, init, ok) ==
    /\ Running /\ ~vec[v].alive
    /\ LET call == Call("ListConstruct", v, v, Len(init), 0, ok, 0) IN
       IF ~ok THEN Throws(v, vec[v], call)
       ELSE LET p == NewId(heap)
                   h == MakeUnique(heap, Len(init))
               IN Returns(v, SizedMembers(Len(init), p),
                          [h EXCEPT ![p].slots = CopyItems(@, init, 0)], call)

\* ~SimpleVector(): the unique_ptr deletes the array
Destroy(v) ==
    /\ Running /\ vec[v].alive
    /\ Returns(v, NotConstructed, Release(heap, vec[v].array_),
               Call("Destroy", v, v, 0, 0, TRUE, 0))

\* ---- Clear, PopBack ----
\* ClearMembers giving up the capacity as well (size_ = 0; capacity_ = 0)
ClearMembersShrinks(c) == [c EXCEPT !.size_ = 0, !.capacity_ = 0]

\* size_ = 0;
ClearMembers(c) == [c EXCEPT !.size_ = 0]

Clear(v) ==
    /\ Running /\ vec[v].alive
    /\ Returns(v, ClearMembers(vec[v]), heap, Call("Clear", v, v, 0, 0, TRUE, 0))

\* PopBackMembers giving up the slot as well (--size_; --capacity_)
PopBackMembersShrinks(c) == [c EXCEPT !.size_ = @ - 1, !.capacity_ = @ - 1]

\* --size_;
PopBackMembers(c) == [c EXCEPT !.size_ = @ - 1]

PopBack(v) ==
    /\ Running /\ vec[v].alive
    /\ vec[v].size_ > -MaxUnder
    /\ Returns(v, PopBackMembers(vec[v]), heap, Call("PopBack", v, v, 0, 0, TRUE, 0))

\* ---- Insert, PushBack ----
\* GrowCapacity growing by one slot
GrowCapacityByOne(capacity) == capacity + 1

\* capacity_ == 0 ? 1 : 2 * capacity_
GrowCapacity(capacity) == IF capacity = 0 THEN 1 ELSE 2 * capacity

\* the new array of the reallocating branch
InsertIntoNew(new_array, old, idx, value, size) ==
    LET head == MoveInto(new_array, old, 0, idx, 0)
        mid == [head EXCEPT ![idx + 1] = value]
    IN MoveInto(mid, old, idx, size, 1)

\* the array after the in-place branch
InsertInPlace(arr, idx, value, size) ==
    LET shifted == MoveUp(arr, size, idx)
    IN [shifted EXCEPT ![idx + 1] = value]

\* Insert(pos, value) with idx = pos - cbegin(), called as `op`
InsertAt(op, v, idx, value, ok) ==
    LET c == vec[v]
        old == Slots(heap, c.array_)
        call == Call(op, v, v, idx, value, ok, idx)
    IN
    IF c.size_ = c.capacity_
    THEN \* capacity_ is assigned before the allocation
         LET grown == [c EXCEPT !.capacity_ = GrowCapacity(c.capacity_)] IN
         IF ~ok THEN Throws(v, grown, call)
         ELSE IF ~InRange(c.size_, Len(old)) \/ ~InRange(c.size_ + 1, grown.capacity_)
                 THEN Undefined(call)
                 ELSE LET p == NewId(heap)
                          h == MakeUnique(heap, grown.capacity_)
                          filled == [h EXCEPT ![p].slots =
                                        InsertIntoNew(@, old, idx, value, c.size_)]
                      IN Returns(v, [grown EXCEPT !.array_ = p, !.size_ = c.size_ + 1],
                                 Release(filled, c.array_), call)
    ELSE /\ ok
         /\ IF c.size_ < 0 \/ c.size_ >= Len(old)
            THEN Undefined(call)
            ELSE Returns(v, [c EXCEPT !.size_ = @ + 1],
                         [heap EXCEPT ![c.array_].slots =
                             InsertInPlace(@, idx, value, c.size_)], call)

\* the positions a caller can pass: pointers into the array or one past it,
\* not beyond end()
Positions(v) ==
    {i \in 0..Len(Slots(heap, vec[v].array_)) : ULessEq(i, vec[v].size_)}

Insert(v, idx, value, ok) ==
    /\ Running /\ vec[v].alive
    /\ idx \in Positions(v)
    /\ InsertAt("Insert", v, idx, value, ok)

\* Insert(end(), std::move(item))
PushBack(v, item, ok) ==
    /\ Running \/ Following(v)
    /\ vec[v].alive
    /\ InsertAt("PushBack", v, vec[v].size_, item, ok)

\* ---- Erase ----
Erase(v, idx) ==
    /\ Running /\ vec[v].alive
    /\ idx \in Positions(v) /\ idx # vec[v].size_
    /\ LET c == vec[v]
           old == Slots(heap, c.array_)
           call == Call("Erase", v, v, idx, 0, TRUE, idx)
       IN IF ~InRange(c.size_, Len(old))
          THEN Undefined(call)
          ELSE Returns(v, [c EXCEPT !.size_ = @ - 1],
                       [heap EXCEPT ![c.array_].slots = MoveDown(@, idx + 1, c.size_)],
                       call)

\* ---- Resize, Reserve ----
Resize(v, new_size, ok) ==
    /\ Running /\ vec[v].alive
    /\ LET c == vec[v]
           old == Slots(heap, c.array_)
           call == Call("Resize", v, v, new_size, 0, ok, 0)
       IN
       IF ULess(c.capacity_, new_size)
       THEN IF ~ok THEN Throws(v, c, call)
            ELSE IF ~InRange(c.size_, Len(old)) \/ ~InRange(c.size_, new_size)
                    THEN Undefined(call)
                    ELSE LET p == NewId(heap)
                             h == MakeUnique(heap, new_size)
                             moved == MoveInto(h[p].slots, old, 0, c.size_, 0)
                         IN Returns(v,
                                [c EXCEPT !.array_ = p, !.capacity_ = new_size,
                                          !.size_ = new_size],
                                Release([h EXCEPT ![p].slots =
                                            FillDefault(moved, c.size_, new_size)],
                                        c.array_),
                                call)
       ELSE /\ ok
            /\ IF ULess(c.size_, new_size) /\ ~InRange(new_size, Len(old))
               THEN Undefined(call)
               ELSE Returns(v, [c EXCEPT !.size_ = new_size],
                        IF c.array_ = 0 THEN heap
                        ELSE [heap EXCEPT ![c.array_].slots =
                                 FillDefault(@, c.size_, new_size)],
                        call)

\* ReserveOn allocating one slot more than asked for
ReserveOnWithSlack(c, h, new_capacity) ==
    LET old == Slots(h, c.array_) IN
    IF ~ULess(c.capacity_, new_capacity) THEN <<FALSE, c, h>>
    ELSE IF ~InRange(c.size_, Len(old)) \/ ~InRange(c.size_, new_capacity)
    THEN <<TRUE, c, h>>
    ELSE LET p == NewId(h)
             h1 == MakeUnique(h, new_capacity + 1)
         IN <<FALSE,
              [c EXCEPT !.array_ = p, !.capacity_ = new_capacity + 1],
              Release([h1 EXCEPT ![p].slots = StdCopy(old, 0, c.size_, @)], c.array_)>>

\* ReserveOn copying all but the last element (std::copy(begin(), end() - 1, ...))
ReserveOnCopiesShort(c, h, new_capacity) ==
    LET old == Slots(h, c.array_) IN
    IF ~ULess(c.capacity_, new_capacity) THEN <<FALSE, c, h>>
    ELSE IF ~InRange(c.size_, Len(old)) \/ ~InRange(c.size_, new_capacity)
    THEN <<TRUE, c, h>>
    ELSE LET p == NewId(h)
             h1 == MakeUnique(h, new_capacity)
         IN <<FALSE,
              [c EXCEPT !.array_ = p, !.capacity_ = new_capacity],
              Release([h1 EXCEPT ![p].slots =
                          IF c.size_ = 0 THEN @ ELSE StdCopy(old, 0, c.size_ - 1, @)],
                      c.array_)>>

\* the body of Reserve on members c: <<undefined, members, heap>>
ReserveOn(c, h, new_capacity) ==
    LET old == Slots(h, c.array_) IN
    IF ~ULess(c.capacity_, new_capacity) THEN <<FALSE, c, h>>
    ELSE IF ~InRange(c.size_, Len(old)) \/ ~InRange(c.size_, new_capacity)
    THEN <<TRUE, c, h>>
    ELSE LET p == NewId(h)
             h1 == MakeUnique(h, new_capacity)
         IN <<FALSE,
              [c EXCEPT !.array_ = p, !.capacity_ = new_capacity],
              Release([h1 EXCEPT ![p].slots = StdCopy(old, 0, c.size_, @)], c.array_)>>

\* whether Reserve(new_capacity) on members c allocates
ReserveAllocates(c, new_capacity) == ULess(c.capacity_, new_capacity)

ReserveCall(call, v, c, new_capacity, ok) ==
    IF ReserveAllocates(c, new_capacity) /\ ~ok THEN Throws(v, vec[v], call)
    ELSE /\ ok
         /\ LET r == ReserveOn(c, heap, new_capacity) IN
            IF r[1] THEN Undefined(call) ELSE Returns(v, r[2], r[3], call)

Reserve(v, new_capacity, ok) ==
    /\ Running /\ vec[v].alive
    /\ ReserveCall(Call("Reserve", v, v, new_capacity, 0, ok, 0), v, vec[v], new_capacity, ok)

\* SimpleVector(ReserveProxyObj other): default members, then
\* Reserve(other.capacity_to_reserve)
ReserveConstruct(v, capacity_to_reserve, ok) ==
    /\ Running /\ ~vec[v].alive
    /\ ReserveCall(Call("ReserveConstruct", v, v, capacity_to_reserve, 0, ok, 0),
                   v, DefaultMembers, capacity_to_reserve, ok)

\* ---- operator[] used to assign an element ----
Assign(v, index, value) ==
    /\ Running /\ vec[v].alive
    /\ index \in Positions(v) /\ index # vec[v].size_
    /\ index < Len(Slots(heap, vec[v].array_))
    /\ Returns(v, vec[v], [heap EXCEPT ![vec[v].array_].slots[index + 1] = value],
               Call("Assign", v, v, index, value, TRUE, 0))

\* ---- At ----
\* what `ret` holds when std::out_of_range is thrown instead of a reference
\* being returned
OutOfRange == -1

\* At with the index checked against the capacity (index >= capacity_)
AtChecked(c, index) == ULessEq(c.capacity_, index)

\* if (index >= size_) throw std::out_of_range(...)
AtThrows(c, index) == ULessEq(c.size_, index)

\* At(index): the reference returned is recorded as the index it refers to
\* and the value read through it
At(v, index) ==
    /\ Running /\ vec[v].alive
    /\ LET c == vec[v]
           slots == Slots(heap, c.array_)
       IN IF AtThrows(c, index)
          THEN Reads(Call("At", v, v, index, 0, TRUE, OutOfRange))
          ELSE IF index >= Len(slots)
          THEN Undefined(Call("At", v, v, index, 0, TRUE, index))
          ELSE Reads(Call("At", v, v, index, slots[index + 1], TRUE, index))

\* ---- the comparison operators ----
\* std::equal(first1, last1, first2) over the arrays a and b
RECURSIVE StdEqual(_, _, _, _)
StdEqual(a, first1, last1, b) ==
    IF first1 = last1 THEN TRUE
    ELSE IF a[first1 + 1] # b[first1 + 1] THEN FALSE
    ELSE StdEqual(a, first1 + 1, last1, b)

\* LexicographicalCompare returning first1 == last1 at the end of the loop
RECURSIVE LexicographicalCompareToEnd(_, _, _, _, _, _)
LexicographicalCompareToEnd(a, first1, last1, b, first2, last2) ==
    IF first1 = last1 \/ first2 = last2 THEN first1 = last1
    ELSE IF a[first1 + 1] < b[first2 + 1] THEN TRUE
    ELSE IF b[first2 + 1] < a[first1 + 1] THEN FALSE
    ELSE LexicographicalCompareToEnd(a, first1 + 1, last1, b, first2 + 1, last2)

\* std::lexicographical_compare(first1, last1, first2, last2)
RECURSIVE LexicographicalCompare(_, _, _, _, _, _)
LexicographicalCompare(a, first1, last1, b, first2, last2) ==
    IF first1 = last1 \/ first2 = last2 THEN first1 = last1 /\ first2 # last2
    ELSE IF a[first1 + 1] < b[first2 + 1] THEN TRUE
    ELSE IF b[first2 + 1] < a[first1 + 1] THEN FALSE
    ELSE LexicographicalCompare(a, first1 + 1, last1, b, first2 + 1, last2)

\* operator==
Equal(lhs, rhs, h) ==
    /\ GetSize(lhs) = GetSize(rhs)
    /\ StdEqual(Slots(h, lhs.array_), 0, lhs.size_, Slots(h, rhs.array_))

\* operator<
Less(lhs, rhs, h) ==
    LexicographicalCompare(Slots(h, lhs.array_), 0, lhs.size_,
                           Slots(h, rhs.array_), 0, rhs.size_)

\* operator!=, operator<=, operator>, operator>=
NotEqual(lhs, rhs, h) == ~Equal(lhs, rhs, h)
LessEq(lhs, rhs, h) == ~Less(rhs, lhs, h)
Greater(lhs, rhs, h) == Less(rhs, lhs, h)
GreaterEq(lhs, rhs, h) == ~Less(lhs, rhs, h)

\* the operators built on operator==, and all six
EqualityOperators == {"==", "!="}
Comparisons == {"==", "!=", "<", "<=", ">", ">="}

\* the bool an operator returns, written as the values of Type = bool are
BoolValue(b) == IF b THEN DefaultValue + 1 ELSE DefaultValue

\* lhs `op` rhs
Compares(op, lhs, rhs, h) ==
    CASE op = "==" -> Equal(lhs, rhs, h)
      [] op = "!=" -> NotEqual(lhs, rhs, h)
      [] op = "<" -> Less(lhs, rhs, h)
      [] op = "<=" -> LessEq(lhs, rhs, h)
      [] op = ">" -> Greater(lhs, rhs, h)
      [] op = ">=" -> GreaterEq(lhs, rhs, h)

\* end() of a container whose size_ is beyond its array is no valid pointer;
\* operator== forms end() only when the sizes are equal
Compare(op, v, other) ==
    /\ Running /\ vec[v].alive /\ vec[other].alive
    /\ LET lhs == vec[v]
           rhs == vec[other]
           held == /\ InRange(lhs.size_, Len(Slots(heap, lhs.array_)))
                   /\ InRange(rhs.size_, Len(Slots(heap, rhs.array_)))
           touched == op \in EqualityOperators => GetSize(lhs) = GetSize(rhs)
       IN IF touched /\ ~held
          THEN Undefined(Call(op, v, other, 0, 0, TRUE, 0))
          ELSE Reads(Call(op, v, other, 0, BoolValue(Compares(op, lhs, rhs, heap)),
                          TRUE, 0))

\* ---- swap ----
\* SwapMembers without std::swap(capacity_, other.capacity_)
SwapMembersKeepsCapacity(c, d) ==
    <<[c EXCEPT !.size_ = d.size_, !.array_ = d.array_],
      [d EXCEPT !.size_ = c.size_, !.array_ = c.array_]>>

\* std::swap of size_, capacity_ and array_: <<members of *this, members of other>>
SwapMembers(c, d) ==
    <<[c EXCEPT !.size_ = d.size_, !.capacity_ = d.capacity_, !.array_ = d.array_],
      [d EXCEPT !.size_ = c.size_, !.capacity_ = c.capacity_, !.array_ = c.array_]>>

Swap(v, other) ==
    /\ Running /\ vec[v].alive /\ vec[other].alive
    /\ LET s == SwapMembers(vec[v], vec[other]) IN
       Completes(IF v = other THEN vec ELSE [vec EXCEPT ![v] = s[1], ![other] = s[2]],
                 heap, Call("Swap", v, other, 0, 0, TRUE, 0))

\* ---- copy ----
\* CopyMembers with the capacity taken from the size of the source
CopyMembersOfSize(other) ==
    [alive |-> TRUE, size_ |-> GetSize(other), capacity_ |-> GetSize(other),
     array_ |-> 0]

\* size_(other.GetSize()), capacity_(other.GetCapacity())
CopyMembers(other) ==
    [alive |-> TRUE, size_ |-> GetSize(other), capacity_ |-> GetCapacity(other),
     array_ |-> 0]

\* CopyArray taking over the array of the source (array_(other.array_.get()))
CopyArrayShared(other, h) == IF other.array_ = 0 THEN NewId(h) ELSE other.array_

\* array_(std::make_unique<Type[]>(capacity_)) of the copy, in heap h
CopyArray(other, h) == NewId(h)

\* SimpleVector(const SimpleVector& other) in heap h: <<undefined, members, heap>>
CopyOf(other, h) ==
    LET c == CopyMembers(other)
        src == Slots(h, other.array_)
    IN IF ~InRange(other.size_, Len(src)) \/ ~InRange(other.size_, c.capacity_)
       THEN <<TRUE, c, h>>
       ELSE LET h1 == MakeUnique(h, c.capacity_)
                p == CopyArray(other, h)
            IN <<FALSE, [c EXCEPT !.array_ = p],
                 [h1 EXCEPT ![p].slots = StdCopy(src, 0, other.size_, @)]>>

CopyConstruct(v, other, ok) ==
    /\ Running /\ ~vec[v].alive /\ vec[other].alive
    /\ LET call == Call("CopyConstruct", v, other, 0, 0, ok, 0) IN
       IF ~ok THEN Throws(v, vec[v], call)
       ELSE LET r == CopyOf(vec[other], heap) IN
               IF r[1] THEN Undefined(call) ELSE Returns(v, r[2], r[3], call)

\* operator=(const SimpleVector& rhs): SimpleVector tmp(rhs); swap(tmp); ~tmp
CopyAssign(v, rhs, ok) ==
    /\ Running /\ vec[v].alive /\ vec[rhs].alive
    /\ LET call == Call("CopyAssign", v, rhs, 0, 0, ok, 0) IN
       IF rhs = v THEN ok /\ Returns(v, vec[v], heap, call)
       ELSE IF ~ok THEN Throws(v, vec[v], call)
       ELSE LET r == CopyOf(vec[rhs], heap) IN
               IF r[1] THEN Undefined(call)
               ELSE LET s == SwapMembers(vec[v], r[2]) IN
                    Returns(v, s[1], Release(r[3], s[2].array_), call)

\* ---- move ----
\* size_ = rhs.size_; capacity_ = rhs.capacity_; array_ = std::move(rhs.array_);
MoveTo(c, rhs) ==
    [c EXCEPT !.size_ = rhs.size_, !.capacity_ = rhs.capacity_, !.array_ = rhs.array_]

\* MovedFrom with the pointer copied instead of moved (array_ = rhs.array_.get())
MovedFromKeepsArray(rhs) == [rhs EXCEPT !.size_ = 0, !.capacity_ = 0]

\* MovedFrom without rhs.capacity_ = 0
MovedFromKeepsCapacity(rhs) == [rhs EXCEPT !.array_ = 0, !.size_ = 0]

\* rhs after array_ = std::move(rhs.array_); rhs.size_ = 0; rhs.capacity_ = 0;
MovedFrom(rhs) == [rhs EXCEPT !.array_ = 0, !.size_ = 0, !.capacity_ = 0]

\* operator=(SimpleVector&& rhs) on members c of v
MoveAssignOn(call, v, c, rhs) ==
    IF v = rhs THEN Returns(v, c, heap, call)
    ELSE Completes([vec EXCEPT ![v] = MoveTo(c, vec[rhs]), ![rhs] = MovedFrom(vec[rhs])],
                   Release(heap, c.array_), call)

MoveAssign(v, rhs) ==
    /\ Running /\ vec[v].alive /\ vec[rhs].alive
    /\ MoveAssignOn(Call("MoveAssign", v, rhs, 0, 0, TRUE, 0), v, vec[v], rhs)

\* SimpleVector(SimpleVector&& other): default members, then *this = std::move(other)
MoveConstruct(v, other) ==
    /\ Running /\ ~vec[v].alive /\ vec[other].alive
    /\ MoveAssignOn(Call("MoveConstruct", v, other, 0, 0, TRUE, 0), v, DefaultMembers, other)

\* ---- the program: any sequence of calls ----
\* the literal sequences passed to the initializer_list constructor
MaxInit == 2
InitLists == UNION {[1..n -> Values] : n \in 0..MaxInit}

Construct(v) ==
    \/ DefaultConstruct(v)
    \/ \E n \in Counts : SizedConstruct(v, n, TRUE)
    \/ \E n \in Counts, x \in Values : FillConstruct(v, n, x, TRUE)
    \/ \E init \in InitLists : ListConstruct(v, init, TRUE)
    \/ \E n \in Counts : ReserveConstruct(v, n, TRUE)
    \/ \E o \in Vecs : CopyConstruct(v, o, TRUE)
    \/ \E o \in Vecs : MoveConstruct(v, o)

Mutate(v) ==
    \/ Clear(v)
    \/ PopBack(v)
    \/ \E i \in Counts, x \in Values : Insert(v, i, x, TRUE)
    \/ \E x \in Values : PushBack(v, x, TRUE)
    \/ \E i \in Counts : Erase(v, i)
    \/ \E n \in Counts : Resize(v, n, TRUE)
    \/ \E n \in Counts : Reserve(v, n, TRUE)
    \/ \E i \in Counts, x \in Values : Assign(v, i, x)

Transfer(v) ==
    \/ \E o \in Vecs : Swap(v, o)
    \/ \E o \in Vecs : CopyAssign(v, o, TRUE)
    \/ \E o \in Vecs : MoveAssign(v, o)

\* the calls that only read
Observe(v) ==
    \/ \E i \in Counts : At(v, i)
    \/ \E op \in Comparisons, o \in Vecs : Compare(op, v, o)

Next ==
    \E v \in Vecs : Construct(v) \/ Mutate(v) \/ Transfer(v) \/ Observe(v) \/ Destroy(v)

Spec == Init /\ [][Next]_vars

\* the calls out of which std::bad_alloc propagates
AllocationFails(v) ==
    \/ \E n \in Counts : SizedConstruct(v, n, FALSE)
    \/ \E n \in Counts, x \in Values : FillConstruct(v, n, x, FALSE)
    \/ \E init \in InitLists : ListConstruct(v, init, FALSE)
    \/ \E n \in Counts : ReserveConstruct(v, n, FALSE)
    \/ \E o \in Vecs : CopyConstruct(v, o, FALSE)
    \/ \E i \in Counts, x \in Values : Insert(v, i, x, FALSE)
    \/ \E x \in Values : PushBack(v, x, FALSE)
    \/ \E n \in Counts : Resize(v, n, FALSE)
    \/ \E n \in Counts : Reserve(v, n, FALSE)
    \/ \E o \in Vecs : CopyAssign(v, o, FALSE)

NextAlloc == Next \/ \E v \in Vecs : AllocationFails(v)

SpecAlloc == Init /\ [][NextAlloc]_vars

\* ---- what the properties below speak of ----
\* the container the last call was made on, before and after it
Before == last.vec0[last.vec]
After == vec[last.vec]
SlotsBefore(v) == Slots(last.heap0, last.vec0[v].array_)
SlotsNow(v) == Slots(heap, vec[v].array_)

\* members c over an array `slots` hold a sequence of elements: the logical
\* indices [0, size) are slots of the array
HoldsElements(c, slots) == c.alive /\ 0 <= c.size_ /\ c.size_ <= Len(slots)
ElementsOf(c, slots) == SubSeq(slots, 1, c.size_)
ElementsBefore(v) == ElementsOf(last.vec0[v], SlotsBefore(v))
ElementsNow(v) == ElementsOf(vec[v], SlotsNow(v))

InsertedAt(s, i, x) == SubSeq(s, 1, i) \o <<x>> \o SubSeq(s, i + 1, Len(s))
RemovedAt(s, i) == SubSeq(s, 1, i) \o SubSeq(s, i + 2, Len(s))
Max(x, y) == IF x >= y THEN x ELSE y

\* C1: in every state reached by calls within their input constraints
\* (PopBack on an empty container included), every container has
\* size <= capacity.
C1_SizeWithinCapacity ==
    \A v \in Vecs : vec[v].alive => ULessEq(vec[v].size_, vec[v].capacity_)

\* C2: PopBack on a non-empty container decreases size by exactly 1 and
\* leaves capacity and the elements [0, size - 1) unchanged; PopBack on an
\* empty container changes nothing: size stays 0, capacity is unchanged.
C2_PopBack ==
    last.op = "PopBack" =>
        /\ After.capacity_ = Before.capacity_
        /\ SlotsNow(last.vec) = SlotsBefore(last.vec)
        /\ IF Before.size_ = 0
           THEN After.size_ = 0
           ELSE After.size_ = Before.size_ - 1

\* C3: Insert at position i, 0 <= i <= n, of value v into a container holding
\* [e0..e(n-1)] leaves [e0..e(i-1), v, ei..e(n-1)], size n + 1, and returns
\* position i, on the reallocating path (size == capacity) and on the in-place
\* path (size < capacity).
C3_InsertPlaces ==
    (last.op = "Insert" /\ last.ok /\ HoldsElements(Before, SlotsBefore(last.vec))) =>
        /\ ~ub
        /\ After.size_ = Before.size_ + 1
        /\ HoldsElements(After, SlotsNow(last.vec))
        /\ ElementsNow(last.vec) = InsertedAt(ElementsBefore(last.vec), last.idx, last.val)
        /\ last.ret = last.idx

\* an Insert in the middle of <<1, 1>>, with room to spare, has shifted the
\* tail up by one and placed the value
C3_InsertWitness ==
    /\ last.op = "Insert" /\ ~ub
    /\ Before.size_ = 2 /\ Before.capacity_ = 4 /\ last.idx = 1
    /\ ElementsBefore(last.vec) = <<1, 1>> /\ ElementsNow(last.vec) = <<1, 0, 1>>

\* C4: an Insert or PushBack made when size == capacity sets capacity to
\* max(1, 2 * old capacity), one made when size < capacity leaves capacity
\* unchanged, and each adds 1 to size: from an empty default-constructed
\* container N PushBack calls give size N and capacities 0, 1, 2, 4, 8, ...
C4_Growth ==
    (last.op \in {"Insert", "PushBack"} /\ last.ok) =>
        /\ Before.size_ = Before.capacity_ =>
              /\ ~ub
              /\ After.capacity_ = Max(1, 2 * Before.capacity_)
              /\ After.size_ = Before.size_ + 1
        /\ ULess(Before.size_, Before.capacity_) =>
              /\ ~ub
              /\ After.capacity_ = Before.capacity_
              /\ After.size_ = Before.size_ + 1

\* the third PushBack into a container of capacity 2 has made it 4
C4_GrowthWitness ==
    /\ last.op = "PushBack" /\ ~ub
    /\ Before.size_ = 2 /\ Before.capacity_ = 2
    /\ After.size_ = 3 /\ After.capacity_ = 4

\* C5: Erase at position i, 0 <= i < n, of a container holding [e0..e(n-1)],
\* n >= 1, leaves [e0..e(i-1), e(i+1)..e(n-1)], size n - 1, the capacity
\* unchanged, and returns position i.
C5_EraseRemoves ==
    (last.op = "Erase" /\ HoldsElements(Before, SlotsBefore(last.vec))) =>
        /\ ~ub
        /\ After.size_ = Before.size_ - 1
        /\ After.capacity_ = Before.capacity_
        /\ HoldsElements(After, SlotsNow(last.vec))
        /\ ElementsNow(last.vec) = RemovedAt(ElementsBefore(last.vec), last.idx)
        /\ last.ret = last.idx

\* an element in the middle has been erased and the later ones moved down
C5_EraseWitness ==
    /\ last.op = "Erase" /\ ~ub /\ last.idx = 1
    /\ ElementsBefore(last.vec) = <<1, 1, 0, 1>> /\ ElementsNow(last.vec) = <<1, 0, 1>>

\* C6: when the allocation of a call fails, the container it was called on
\* is left untouched: size, capacity and elements are those before the call,
\* and capacity is the number of slots of the array it owns.
C6_FailedAllocationUntouched ==
    (~last.ok /\ Before.alive) =>
        /\ After.size_ = Before.size_
        /\ After.capacity_ = Before.capacity_
        /\ SlotsNow(last.vec) = SlotsBefore(last.vec)
        /\ After.capacity_ = Len(SlotsNow(last.vec))

\* the copies: copy construction and copy assignment that allocated
Copied == last.op \in {"CopyConstruct", "CopyAssign"} /\ last.ok
Source == last.vec0[last.src]
SourceHoldsElements ==
    /\ HoldsElements(Source, SlotsBefore(last.src))
    /\ Source.size_ <= Source.capacity_

\* what a copy leaves whatever its capacity: the elements and the size of the
\* source, and the source as it was
CopyTaken ==
    /\ ~ub
    /\ After.alive /\ After.size_ = Source.size_
    /\ HoldsElements(After, SlotsNow(last.vec))
    /\ ElementsNow(last.vec) = ElementsBefore(last.src)
    /\ vec[last.src].size_ = Source.size_
    /\ vec[last.src].capacity_ = Source.capacity_
    /\ SlotsNow(last.src) = SlotsBefore(last.src)

\* C7 as stated: the copy of a source of size s and capacity c >= s has the
\* elements [0, s) of the source, size s and capacity s; the source is
\* unchanged (stated of a copy into another container than the source).
C7_CopyCapacityIsSize ==
    (Copied /\ last.vec # last.src /\ SourceHoldsElements) =>
        CopyTaken /\ After.capacity_ = Source.size_

\* C7 amended: the copy of a source of size s and capacity c >= s has the
\* elements [0, s) of the source, size s and capacity c, the capacity of the
\* source, over an array of c slots; the source is unchanged (a copy
\* assignment of a container to itself included, which changes nothing).
C7_CopyCapacityIsCapacity ==
    (Copied /\ SourceHoldsElements) =>
        /\ CopyTaken
        /\ After.capacity_ = Source.capacity_
        /\ Len(SlotsNow(last.vec)) = Source.capacity_

\* a source with spare capacity has been copied into another container
C7_CopyWitness ==
    /\ last.op = "CopyConstruct" /\ ~ub /\ last.vec # last.src
    /\ Source.size_ = 1 /\ Source.capacity_ = 2
    /\ ElementsNow(last.vec) = <<1>> /\ After.capacity_ = 2

\* C8: after the move construction or move assignment b = move(a), a and b
\* distinct, b has the size, capacity and elements a had and a is empty with
\* size 0, capacity 0 and no array; a = move(a) leaves a unchanged.
C8_MoveTransfers ==
    last.op \in {"MoveConstruct", "MoveAssign"} =>
        IF last.vec = last.src
        THEN vec = last.vec0 /\ heap = last.heap0
        ELSE /\ After.alive
             /\ After.size_ = Source.size_
             /\ After.capacity_ = Source.capacity_
             /\ (After.array_ = 0) = (Source.array_ = 0)
             /\ SlotsNow(last.vec) = SlotsBefore(last.src)
             /\ vec[last.src] = DefaultMembers

\* a container holding elements over spare capacity has been moved into
\* another one that held an array of its own
C8_MoveWitness ==
    /\ last.op = "MoveAssign" /\ last.vec # last.src
    /\ Before.array_ # 0 /\ Source.capacity_ = 3
    /\ ElementsBefore(last.src) = <<1, 0>> /\ ElementsNow(last.vec) = <<1, 0>>
    /\ vec[last.src].capacity_ = 0

\* C9: in every state reached by calls on several containers, two distinct
\* containers that hold an array hold different arrays.
C9_ExclusiveOwnership ==
    \A v, w \in Vecs :
        (v # w /\ vec[v].alive /\ vec[w].alive /\ vec[v].array_ # 0 /\ vec[w].array_ # 0)
            => vec[v].array_ # vec[w].array_

\* both containers hold an array after a move assignment between them changed
\* hands, then a copy filled the moved-from one again
C9_OwnershipWitness ==
    /\ last.op = "CopyAssign" /\ last.vec # last.src /\ ~ub
    /\ Before.array_ = 0
    /\ vec["a"].array_ # 0 /\ vec["b"].array_ # 0
    /\ Len(SlotsNow("a")) >= 1 /\ Len(SlotsNow("b")) >= 1

\* the calls that mutate the container they are called on in place
Mutators ==
    {"Assign", "Insert", "PushBack", "Erase", "PopBack", "Resize", "Reserve", "Clear"}

\* C10: a mutating call on one container (after it was copied from another,
\* or the other from it) leaves the size, the capacity and the elements of
\* the other container unchanged.
C10_CopyIndependence ==
    last.op \in Mutators =>
        \A w \in Vecs \ {last.vec} :
            /\ vec[w].alive = last.vec0[w].alive
            /\ vec[w].size_ = last.vec0[w].size_
            /\ vec[w].capacity_ = last.vec0[w].capacity_
            /\ (vec[w].array_ = 0) = (last.vec0[w].array_ = 0)
            /\ SlotsNow(w) = SlotsBefore(w)

\* b held what a holds, as after a copy, and a PushBack on b reallocated it
C10_IndependenceWitness ==
    /\ last.op = "PushBack" /\ last.vec = "b" /\ ~ub
    /\ last.vec0["a"].capacity_ = 1 /\ Before.capacity_ = 1
    /\ ElementsBefore("b") = <<1>> /\ ElementsBefore("a") = <<1>>
    /\ ElementsNow("a") = <<1>> /\ ElementsNow("b") = <<1, 0>>

\* C11: in every reachable state and for every index, At(index) throws
\* out_of_range exactly when index >= size and otherwise returns the element
\* at that index, and it leaves the state of the container as it was.
C11_At ==
    last.op = "At" =>
        /\ (last.ret = OutOfRange) = ULessEq(Before.size_, last.idx)
        /\ last.ret # OutOfRange =>
              /\ ~ub
              /\ last.ret = last.idx
              /\ last.val = SlotsBefore(last.vec)[last.idx + 1]
        /\ vec = last.vec0 /\ heap = last.heap0

\* C11 in the states where the elements [0, size) lie in the array, that is
\* where no PopBack was made on an empty container
C11_AtOfHeldElements ==
    HoldsElements(Before, SlotsBefore(last.vec)) => C11_At

\* At(size - 1) has returned the last element, At(size) has thrown below the
\* capacity
C11_AtReturnsWitness ==
    /\ last.op = "At" /\ ~ub /\ Before.size_ = 2 /\ Before.capacity_ = 4
    /\ last.idx = 1 /\ last.ret = 1 /\ last.val = 1
    /\ ElementsBefore(last.vec) = <<0, 1>>

C11_AtThrowsWitness ==
    /\ last.op = "At" /\ Before.size_ = 2 /\ Before.capacity_ = 4
    /\ last.idx = 2 /\ last.ret = OutOfRange

\* C12: Reserve(n) with n > capacity, on a container holding its elements,
\* sets capacity to exactly n and keeps size and the elements [0, size) in
\* order; Reserve(n) with n <= capacity changes nothing, neither size,
\* capacity, elements nor the array owned.  After either, n <= capacity, so
\* a second Reserve(n) is a call of the second kind.
C12_Reserve ==
    (last.op = "Reserve" /\ last.ok /\ HoldsElements(Before, SlotsBefore(last.vec))) =>
        /\ ~ub
        /\ ULessEq(last.idx, After.capacity_)
        /\ IF ULess(Before.capacity_, last.idx)
           THEN /\ After.capacity_ = last.idx
                /\ Len(SlotsNow(last.vec)) = last.idx
                /\ After.size_ = Before.size_
                /\ ElementsNow(last.vec) = ElementsBefore(last.vec)
           ELSE vec = last.vec0 /\ heap = last.heap0

\* a full container of two elements has been given a capacity of three
C12_ReserveWitness ==
    /\ last.op = "Reserve" /\ ~ub /\ last.idx = 3
    /\ Before.size_ = 2 /\ Before.capacity_ = 2 /\ After.capacity_ = 3
    /\ ElementsBefore(last.vec) = <<0, 1>> /\ ElementsNow(last.vec) = <<0, 1>>

Min(x, y) == IF x <= y THEN x ELSE y

\* C13: Resize(n), on a container holding its elements, ends with size n;
\* the elements at [0, min(old size, n)) keep their values; every slot in
\* [old size, n) holds the default value afterwards, whatever it held before;
\* capacity is exactly n when n > old capacity and unchanged otherwise.
C13_Resize ==
    (last.op = "Resize" /\ last.ok /\ HoldsElements(Before, SlotsBefore(last.vec))) =>
        /\ ~ub
        /\ After.size_ = last.idx
        /\ HoldsElements(After, SlotsNow(last.vec))
        /\ \A i \in 1..Min(Before.size_, last.idx) :
              SlotsNow(last.vec)[i] = SlotsBefore(last.vec)[i]
        /\ \A i \in (Before.size_ + 1)..last.idx :
              SlotsNow(last.vec)[i] = DefaultValue
        /\ After.capacity_ =
              IF ULess(Before.capacity_, last.idx) THEN last.idx ELSE Before.capacity_

\* a Resize within the capacity has grown the container over a slot that
\* still held a truncated element
C13_ResizeWitness ==
    /\ last.op = "Resize" /\ ~ub /\ last.idx = 2
    /\ Before.size_ = 1 /\ Before.capacity_ = 2
    /\ SlotsBefore(last.vec) = <<1, 1>> /\ ElementsNow(last.vec) = <<1, 0>>

\* the comparison of two sequences of elements the operators are held
\* against: s is smaller than t when, after a common prefix, s has ended and
\* t has not, or the element of s is smaller than that of t
SeqLess(s, t) ==
    \E k \in 0..Min(Len(s), Len(t)) :
        /\ SubSeq(s, 1, k) = SubSeq(t, 1, k)
        /\ \/ k = Len(s) /\ k < Len(t)
           \/ k < Len(s) /\ k < Len(t) /\ s[k + 1] < t[k + 1]

SeqCompares(op, s, t) ==
    CASE op = "==" -> s = t
      [] op = "!=" -> s # t
      [] op = "<" -> SeqLess(s, t)
      [] op = "<=" -> ~SeqLess(t, s)
      [] op = ">" -> SeqLess(t, s)
      [] op = ">=" -> ~SeqLess(s, t)

\* C14: each of the six comparison operators, applied to containers holding
\* their elements, returns what the comparison of the element sequences
\* [0, size) gives: == is equality of the sequences, < the lexicographic
\* order with a proper prefix smaller, the others their negations and
\* reversals; capacity and the slots in [size, capacity) have no part in it,
\* and the operands are left as they were.
C14_Comparisons ==
    (/\ last.op \in Comparisons
     /\ HoldsElements(Before, SlotsBefore(last.vec))
     /\ HoldsElements(Source, SlotsBefore(last.src))) =>
        /\ ~ub
        /\ last.val = BoolValue(SeqCompares(last.op, ElementsBefore(last.vec),
                                            ElementsBefore(last.src)))
        /\ vec = last.vec0 /\ heap = last.heap0

\* two containers of different capacity, one with a truncated element behind
\* its only element, have compared equal
C14_EqualWitness ==
    /\ last.op = "==" /\ ~ub /\ last.val = BoolValue(TRUE)
    /\ Before.size_ = 1 /\ SlotsBefore(last.vec) = <<0, 1>>
    /\ Source.size_ = 1 /\ SlotsBefore(last.src) = <<0>>

\* a proper prefix has compared smaller
C14_PrefixWitness ==
    /\ last.op = "<" /\ ~ub /\ last.val = BoolValue(TRUE)
    /\ ElementsBefore(last.vec) = <<0>> /\ ElementsBefore(last.src) = <<0, 0>>

\* container v was left empty and has since seen only PushBack calls, all of
\* which found room: they have completed, capacity is what it was and the
\* elements are exactly the values pushed, in order
PushedInPlace(v) ==
    /\ (last.op = "PushBack" /\ last.vec = v /\ ub) =>
          ~(Len(fresh[v].pushed) < fresh[v].capacity)
    /\ ~(last.op = "PushBack" /\ last.vec = v /\ ub) =>
          /\ vec[v].capacity_ = fresh[v].capacity
          /\ vec[v].size_ = Len(fresh[v].pushed)
          /\ HoldsElements(vec[v], SlotsNow(v))
          /\ ElementsNow(v) = fresh[v].pushed

\* C15: Clear sets size to 0 and leaves capacity and the array owned as they
\* were, and while the only calls since a Clear that left capacity c are up
\* to c PushBack calls, each of them has completed, capacity is still c and
\* the elements are exactly the values pushed, in order.
C15_Clear ==
    /\ last.op = "Clear" =>
          /\ After.size_ = 0
          /\ After.capacity_ = Before.capacity_
          /\ After.array_ = Before.array_
          /\ heap = last.heap0
    /\ \A v \in Vecs :
          (fresh[v].on /\ fresh[v].by = "Clear") => PushedInPlace(v)

\* a container of capacity 2 has been cleared of two elements and filled
\* again by two PushBack calls with other values
C15_ClearWitness ==
    /\ last.op = "PushBack" /\ ~ub
    /\ fresh[last.vec].on /\ fresh[last.vec].by = "Clear"
    /\ fresh[last.vec].capacity = 2 /\ fresh[last.vec].pushed = <<0, 1>>
    /\ SlotsBefore(last.vec) = <<0, 0>> /\ After.capacity_ = 2
    /\ ElementsNow(last.vec) = <<0, 1>>

\* members c are what container w was before the call: its size, its
\* capacity and its array with every slot as it was
IsAsBefore(c, w) ==
    /\ c.alive
    /\ c.size_ = last.vec0[w].size_
    /\ c.capacity_ = last.vec0[w].capacity_
    /\ (c.array_ = 0) = (last.vec0[w].array_ = 0)
    /\ Slots(heap, c.array_) = SlotsBefore(w)

\* C16: a.swap(b) exchanges size, capacity and the array with its elements
\* between a and b, no element value changing; swapping the result once more
\* gives back the two containers as they were; a.swap(a) leaves a unchanged.
C16_Swap ==
    last.op = "Swap" =>
        /\ ~ub
        /\ IF last.vec = last.src
           THEN vec = last.vec0 /\ heap = last.heap0
           ELSE /\ IsAsBefore(vec[last.vec], last.src)
                /\ IsAsBefore(vec[last.src], last.vec)
                /\ LET again == SwapMembers(vec[last.vec], vec[last.src]) IN
                   /\ IsAsBefore(again[1], last.vec)
                   /\ IsAsBefore(again[2], last.src)

\* two containers of different size and capacity have changed places
C16_SwapWitness ==
    /\ last.op = "Swap" /\ last.vec # last.src
    /\ Before.capacity_ = 1 /\ ElementsBefore(last.vec) = <<1>>
    /\ Source.capacity_ = 3 /\ ElementsBefore(last.src) = <<0, 1>>
    /\ After.capacity_ = 3 /\ ElementsNow(last.vec) = <<0, 1>>
    /\ vec[last.src].capacity_ = 1 /\ ElementsNow(last.src) = <<1>>

\* C17: the constructor from a ReserveProxyObj carrying n leaves size 0 and
\* capacity n, for every n >= 0, and while the only calls since are up to n
\* PushBack calls, capacity is still n (and the elements are the values
\* pushed).
C17_ReserveConstruct ==
    /\ (last.op = "ReserveConstruct" /\ last.ok) =>
          /\ ~ub
          /\ After.alive /\ After.size_ = 0 /\ After.capacity_ = last.idx
          /\ Len(SlotsNow(last.vec)) = last.idx
    /\ \A v \in Vecs :
          (fresh[v].on /\ fresh[v].by = "ReserveConstruct") => PushedInPlace(v)

\* a container constructed with Reserve(3) has taken three PushBack calls
C17_ReserveConstructWitness ==
    /\ last.op = "PushBack" /\ ~ub
    /\ fresh[last.vec].on /\ fresh[last.vec].by = "ReserveConstruct"
    /\ fresh[last.vec].capacity = 3 /\ fresh[last.vec].pushed = <<1, 0, 1>>
    /\ After.capacity_ = 3 /\ After.size_ = 3

\* the operations without input constraints, Insert being called with a
\* position in [begin, end]
Unconstrained == {"PopBack", "Clear", "Resize", "Reserve", "PushBack", "Insert"}

\* C18: in no sequence of calls within their input constraints does PopBack,
\* Clear, Resize, Reserve, PushBack or Insert read or write a slot outside
\* the array it accesses.
C18_NoAccessOutsideArray ==
    ub => last.op \notin Unconstrained

\* the calls through which the capacity of a container may become smaller
Transfers == {"CopyAssign", "MoveAssign", "MoveConstruct", "Swap"}

\* C19: the capacity of a container never decreases under Insert, PushBack,
\* Erase, PopBack, Resize, Reserve and Clear: the capacity of a container is
\* smaller after a call than before it only if the call is a copy
\* assignment, a move assignment or construction (for the container moved
\* from) or a swap.
C19_CapacityNeverDecreases ==
    /\ last.op \in Mutators => ULessEq(Before.capacity_, After.capacity_)
    /\ \A w \in Vecs :
          (/\ last.vec0[w].alive /\ vec[w].alive
           /\ ULess(vec[w].capacity_, last.vec0[w].capacity_)) =>
              last.op \in Transfers

\* a Resize to 0 of a container of three elements has kept the capacity of 4
C19_CapacityWitness ==
    /\ last.op = "Resize" /\ ~ub /\ last.idx = 0
    /\ Before.size_ = 3 /\ Before.capacity_ = 4
    /\ After.size_ = 0 /\ After.capacity_ = 4

\* C20: in every reachable state, capacity == 0 holds of a container if and
\* only if it owns no array (array_ is the null pointer).
C20_NoCapacityNoArray ==
    \A v \in Vecs : vec[v].alive => ((vec[v].capacity_ = 0) <=> (vec[v].array_ = 0))

\* C20 read of the slots and not of the pointer: in every reachable state the
\* capacity of a container is the number of slots of the array it owns, none
\* if it owns no array
C20_CapacityIsSlots ==
    \A v \in Vecs : vec[v].alive => vec[v].capacity_ = Len(SlotsNow(v))

====
